---- MODULE Spec2Model ----
(***************************************************************************)
(* Model of the detail-enrichment pipeline of the OneReal agent scraper    *)
(* API: the handler get_all_agents_full of src/main.py                     *)
(* (GET /scrape-agents-full), its nested coroutine get_detailed_info, the  *)
(* asyncio.Semaphore(3) that gates the detail fetches, and the join        *)
(* (asyncio.gather) that produces the batch response.                      *)
(*                                                                         *)
(* Encoding of Python values:                                              *)
(*   str            a tuple of one-character strings   ("" is << >>)       *)
(*   List[str]      a tuple of str                     ([] is << >>)       *)
(*   Optional[T]    None is << >>, a value v is <<v>>                      *)
(* so that None, "" and [] stay three different values, as in Python.      *)
(***************************************************************************)
EXTENDS Integers, Sequences, FiniteSets, TLC

\* Largest batch the summary fetcher returns in the model.
MaxBatch == 4

(***************************************************************************)
(* Python values                                                           *)
(***************************************************************************)
None == << >>

Some(v) == <<v>>

\* bool(x) of an Optional[str] / Optional[List[str]]: None, "" and [] are falsy.
Truthy(o) == o # None /\ o[1] # << >>

\* Python's  a or b : a when a is truthy, else b (whatever b is).
PyOr(a, b) == IF Truthy(a) THEN a ELSE b

(***************************************************************************)
(* AgentInfo (src/scraper.py): fifteen independently optional fields.      *)
(***************************************************************************)
Fields ==
    {"name", "location", "profile_url", "phone", "email", "bio", "specialties",
     "languages", "years_experience", "image_url", "office", "license",
     "website", "facebook", "instagram"}

\* AgentInfo() with every field left at its default None.
AgentInfo == [f \in Fields |-> None]

(***************************************************************************)
(* re.search(r'/profile/([^/?]+)', profile_url)                            *)
(***************************************************************************)
ProfilePath == <<"/", "p", "r", "o", "f", "i", "l", "e", "/">>

\* The character class [^/?] of the capture group.
IdChar(c) == c \notin {"/", "?"}

MatchesAtEmptyId(u, i) ==
    /\ i + Len(ProfilePath) - 1 <= Len(u)
    /\ \A k \in 1..Len(ProfilePath) : u[i + k - 1] = ProfilePath[k]

\* The pattern matches at position i: the literal, then at least one IdChar.
MatchesAt(u, i) ==
    /\ i + Len(ProfilePath) <= Len(u)
    /\ \A k \in 1..Len(ProfilePath) : u[i + k - 1] = ProfilePath[k]
    /\ IdChar(u[i + Len(ProfilePath)])

\* group(1) of the match at position i: the longest run of IdChars (greedy +).
Group1(u, i) ==
    LET first == i + Len(ProfilePath)
        stops == {k \in first..Len(u) : ~IdChar(u[k])}
        last  == IF stops = {} THEN Len(u)
                 ELSE (CHOOSE k \in stops : \A j \in stops : k <= j) - 1
    IN  SubSeq(u, first, last)

\* re.search: None when no position matches, else group(1) of the leftmost match.
ProfileIdOf(u) ==
    LET hits == {i \in 1..Len(u) : MatchesAt(u, i)}
    IN  IF hits = {} THEN None
        ELSE Some(Group1(u, CHOOSE i \in hits : \A j \in hits : i <= j))


(***************************************************************************)
(* The collaborators' inputs.                                              *)
(***************************************************************************)
Host == <<"h", "t", "t", "p", "s", ":", "/", "/", "o", "n", "e", "r", "e", "a", "l", ".", "c", "o", "m">>

\* f"https://onereal.com/profile/{profile_id}"  (src/scraper.py, line 196)
ProfileUrl(profile_id) == Host \o ProfilePath \o profile_id

\* A summary as scrape_agents builds it: profile_url, name, location, image_url.
SummaryA ==
    [AgentInfo EXCEPT !.profile_url = Some(ProfileUrl(<<"a">>)),
                      !.name = Some(<<"A", "l">>),
                      !.location = Some(<<"N", "Y">>),
                      !.image_url = Some(<<"i", "a">>)]

\* A summary whose URL carries a query string, with empty and further fields.
SummaryB ==
    [AgentInfo EXCEPT !.profile_url = Some(ProfileUrl(<<"b">>) \o <<"?", "r">>),
                      !.name = Some(<< >>),
                      !.phone = Some(<<"7">>),
                      !.email = Some(<<"b", "@", "x">>),
                      !.bio = Some(<< >>),
                      !.specialties = Some(<< <<"l", "a", "n", "d">> >>),
                      !.languages = Some(<< >>),
                      !.office = Some(<<"o", "b">>),
                      !.license = Some(<<"L", "1">>)]

\* A summary without profile_url.
SummaryNoUrl == [AgentInfo EXCEPT !.name = Some(<<"N", "o">>)]

\* A summary whose URL has the /profile/ segment but no identifier after it.
SummaryEmptyId ==
    [AgentInfo EXCEPT !.profile_url = Some(Host \o ProfilePath \o <<"?", "r">>),
                      !.name = Some(<<"E", "m">>)]

SummaryRecords == {SummaryA, SummaryB, SummaryNoUrl, SummaryEmptyId}

\* What scrape_agents may return: every batch of at most MaxBatch summaries.
Batches == UNION {[1..n -> SummaryRecords] : n \in 0..MaxBatch}

\* The page of a fully filled-in profile: every field populated
\* (src/scraper.py, lines 345-361).
DetailFull(id) ==
    [f \in Fields |->
        CASE f = "profile_url" -> Some(ProfileUrl(id))
          [] f \in {"specialties", "languages"} -> Some(<< <<"d">>, id >>)
          [] OTHER -> Some(<<"D">> \o id)]

\* The page of a sparse profile: fields missing (None) and fields empty.
DetailSparse(id) ==
    [AgentInfo EXCEPT !.profile_url = Some(ProfileUrl(id)),
                      !.location = Some(<< >>),
                      !.phone = Some(<<"5">>),
                      !.bio = Some(<< >>),
                      !.specialties = Some(<< >>),
                      !.languages = Some(<< <<"e", "n">> >>),
                      !.office = Some(<< >>),
                      !.website = Some(<<"w">>)]

\* The record scrape_agent_profile(id) builds from the site's page of profile id.
DetailRecord(id) == IF id = <<"a">> THEN DetailFull(id) ELSE DetailSparse(id)

\* The return values of the call scrape_agent_profile(id[1]), declared
\* Optional[AgentInfo] and tested by its callers with  if detailed_info: /
\* if not profile_fetched: the page's record, or None. There are none while no call
\* is made (id is None).
DetailResults(id) ==
    IF id = None THEN {} ELSE {None, Some(DetailRecord(id[1]))}

\* str(e) of the exceptions scrape_agents raises (src/scraper.py, lines 39, 169).
SummaryErrors ==
    {<<"Error scraping agents: ", "Timeout 60000ms exceeded">>,
     <<"Executable doesn't exist">>}

(***************************************************************************)
(* State of one request.  A behaviour is one request to one endpoint; the  *)
(* variables of the other endpoints stay at their idle values.             *)
(***************************************************************************)
\* GET /scrape-agents-full and GET /scrape-profile/{profile_id}
VARIABLES
    pc,               \* where the handler is: "summary", "gather", "profile",
                      \* "done" ("idle": no such request)
    agents,           \* the list scrape_agents returned
    task,             \* per unit: "waiting" (for a permit), "fetching", "done"
    semaphore,        \* the value of asyncio.Semaphore(3): the free permits
    profile_id,       \* per unit: the argument of its scrape_agent_profile call
    fetched,          \* per unit: how that call ended: "record", "empty",
                      \* "raised", or "no" while it has not ended (or was not made)
    detailed_info,    \* per unit: the value that call returned (None before)
    result,           \* per unit: the value get_detailed_info returned
    failed_profiles,  \* the list the except branch appends to
    response,         \* the HTTP response of the request
    requested,        \* the path parameter of /scrape-profile/{profile_id}
    profile_fetched,  \* how its scrape_agent_profile call ended: "record",
                      \* "empty", "raised", or "no" before
    browser,          \* per unit: the browser of its scrape_agent_profile call:
                      \* "none", "open", "closed" (<< >> where the call is
                      \* taken as one step)
    hung              \* the units whose scrape_agent_profile call never ends

\* POST /verify-agent and POST /verify-agent-mcp
VARIABLES
    v_pc,             \* where the handler is: "validate", "scrape", "loop",
                      \* "respond", "done" ("idle": no such request)
    endpoint,         \* "verify-agent" or "verify-agent-mcp"
    agent_details,    \* the request body
    scrapes,          \* how many times the page scrape was started
    scraped_agents,   \* the list the page scrape returned
    index,            \* the position the for loop is at
    evaluated,        \* the positions agent_matches was called on
    matched_agent,    \* the loop's matched_agent
    v_response        \* the HTTP response of the request

\* One call of agent_matches(provided, scraped)
VARIABLES
    m_pc,             \* "call", "return" ("idle": no such call)
    m_provided,       \* its first argument
    m_scraped,        \* its second argument
    m_result          \* the value it returned

\* One call of normalize_phone(phone)
VARIABLES
    n_pc,             \* "call", "return" ("idle": no such call)
    n_phone,          \* its argument
    n_result          \* the value it returned

\* GET /scrape-agents-full-mcp
VARIABLES
    c_pc,             \* where the handler is: "links", "gather", "done"
                      \* ("idle": no such request)
    agent_links_data, \* the links extracted from the search page
    c_task,           \* per link: "waiting" for a permit, "fetching", "done"
    c_semaphore,      \* free permits of the function's own Semaphore(3)
    c_results,        \* per link: what its get_detailed_info returned (None
                      \* until it returns, and when it returns None)
    c_response        \* the HTTP response

enrich_vars ==
    <<pc, agents, task, semaphore, profile_id, fetched, detailed_info, result,
      failed_profiles, response, requested, profile_fetched, browser, hung>>

verify_vars ==
    <<v_pc, endpoint, agent_details, scrapes, scraped_agents, index, evaluated,
      matched_agent, v_response>>

match_vars == <<m_pc, m_provided, m_scraped, m_result>>

phone_vars == <<n_pc, n_phone, n_result>>

mcp_vars == <<c_pc, agent_links_data, c_task, c_semaphore, c_results, c_response>>

vars == <<enrich_vars, verify_vars, match_vars, phone_vars, mcp_vars>>

\* The units of the batch: one get_detailed_info(agent) per summary.
Units == 1..Len(agents)

\* asyncio.Semaphore(3)
Permits == 3

NoResponse == [status |-> 0]

\* The path parameters of the modelled /scrape-profile requests.
ProfileIds == {<<"a">>, <<"b">>}

\* No request to the verify endpoints.
VerifyIdle ==
    /\ v_pc = "idle"
    /\ endpoint = "none"
    /\ agent_details = None
    /\ scrapes = 0
    /\ scraped_agents = << >>
    /\ index = 0
    /\ evaluated = {}
    /\ matched_agent = None
    /\ v_response = NoResponse

\* No stand-alone call of agent_matches.
MatchIdle ==
    /\ m_pc = "idle"
    /\ m_provided = None
    /\ m_scraped = None
    /\ m_result = FALSE

\* No stand-alone call of normalize_phone.
PhoneIdle ==
    /\ n_pc = "idle"
    /\ n_phone = None
    /\ n_result = None

\* No request to /scrape-agents-full-mcp.
McpIdle ==
    /\ c_pc = "idle"
    /\ agent_links_data = << >>
    /\ c_task = << >>
    /\ c_semaphore = Permits
    /\ c_results = << >>
    /\ c_response = NoResponse

\* The locals of get_all_agents_full before its first statement.
EnrichStart ==
    /\ agents = << >>
    /\ task = << >>
    /\ semaphore = Permits
    /\ profile_id = << >>
    /\ fetched = << >>
    /\ detailed_info = << >>
    /\ result = << >>
    /\ failed_profiles = << >>
    /\ response = NoResponse
    /\ profile_fetched = "no"
    /\ browser = << >>
    /\ hung = {}

\* No request to the scrape endpoints.
EnrichIdle ==
    /\ pc = "idle"
    /\ requested = None
    /\ EnrichStart

\* One request: GET /scrape-agents-full, or GET /scrape-profile/{profile_id}.
Init ==
    /\ \/ pc = "summary" /\ requested = None
       \/ pc = "profile" /\ requested \in {Some(id) : id \in ProfileIds}
    /\ EnrichStart
    /\ VerifyIdle
    /\ MatchIdle
    /\ PhoneIdle
    /\ McpIdle

(***************************************************************************)
(* The semaphore of  async with semaphore:                                 *)
(***************************************************************************)
LockedNever(value) == FALSE

\* Semaphore.locked(): no permit is free, the caller has to wait.
Locked(value) == value = 0

\* Semaphore.acquire() once a permit is free.
Acquire(value) == value - 1

ReleaseLost(value) == value

\* Semaphore.release(), run by __aexit__ on every exit of the block.
Release(value) == value + 1

(***************************************************************************)
(* The body of get_detailed_info (src/main.py, lines 132-167).             *)
(***************************************************************************)
MergedInfoDetailUrl(agent, detail) ==
    [f \in Fields |-> PyOr(detail[f], agent[f])]

MergedInfoHalf(agent, detail) ==
    [f \in Fields |->
        CASE f = "profile_url" -> agent.profile_url
          [] f \in {"name", "image_url"} -> PyOr(detail[f], agent[f])
          [] OTHER -> detail[f]]

\* AgentInfo(name=detailed_info.name or agent.name, ...,
\*           profile_url=agent.profile_url, ...)
MergedInfo(agent, detail) ==
    [f \in Fields |->
        IF f = "profile_url" THEN agent.profile_url ELSE PyOr(detail[f], agent[f])]

AppendNothing(failed, url) == failed

AppendFailedOverwrite(failed, url) == <<url>>

\* failed_profiles.append(agent.profile_url)
AppendFailed(failed, url) == Append(failed, url)

(***************************************************************************)
(* The responses of the handler.                                           *)
(***************************************************************************)
MessageSuffixAlways(n, failed) ==
    <<"Successfully scraped ", n, " agents with full details",
      " (", Len(failed), " profiles failed to load details)">>

\* f"Successfully scraped {n} agents with full details", and, when
\* failed_profiles is not empty, f" ({k} profiles failed to load details)".
Message(n, failed) ==
    <<"Successfully scraped ", n, " agents with full details">>
        \o (IF failed # << >>
            THEN <<" (", Len(failed), " profiles failed to load details)">>
            ELSE << >>)

\* ScrapeResponse(success=True, total_agents=len(list), agents=list, message=...)
ScrapeResponse(list, message) ==
    [status |-> 200, success |-> TRUE, total_agents |-> Len(list),
     agents |-> list, message |-> message]

HTTPException500Generic(e) ==
    [status |-> 500, detail |-> <<"Internal Server Error">>]

\* HTTPException(status_code=500, detail=f"Error scraping agents with full details: {str(e)}")
HTTPException500(e) ==
    [status |-> 500, detail |-> <<"Error scraping agents with full details: ">> \o e]

(***************************************************************************)
(* The handler get_all_agents_full (src/main.py, lines 99-184).            *)
(***************************************************************************)
\* agents = await scrape_agents(search_label) returns a batch: an empty batch
\* is answered at once, otherwise one unit per summary is created and the
\* handler awaits the join.
SummaryReturn ==
    /\ pc = "summary"
    /\ \E batch \in Batches :
        /\ agents' = batch
        /\ IF batch = << >>
           THEN /\ pc' = "done"
                /\ response' = [status |-> 200, success |-> TRUE, total_agents |-> 0,
                                agents |-> << >>, message |-> <<"No agents found">>]
                /\ UNCHANGED <<task, profile_id, fetched, detailed_info, result>>
           ELSE /\ pc' = "gather"
                /\ task' = [i \in 1..Len(batch) |-> "waiting"]
                /\ profile_id' = [i \in 1..Len(batch) |-> None]
                /\ fetched' = [i \in 1..Len(batch) |-> "no"]
                /\ detailed_info' = [i \in 1..Len(batch) |-> None]
                /\ result' = [i \in 1..Len(batch) |-> None]
                /\ UNCHANGED response
    /\ UNCHANGED <<semaphore, failed_profiles>>
    /\ UNCHANGED <<requested, profile_fetched, browser, hung, verify_vars, match_vars,
                   phone_vars, mcp_vars>>

\* await scrape_agents(search_label) raises e: the outer except answers 500.
SummaryRaise(e) ==
    /\ pc = "summary"
    /\ pc' = "done"
    /\ response' = HTTPException500(e)
    /\ UNCHANGED <<agents, task, semaphore, profile_id, fetched, detailed_info,
                   result, failed_profiles>>
    /\ UNCHANGED <<requested, profile_fetched, browser, hung, verify_vars, match_vars,
                   phone_vars, mcp_vars>>

EnterIneligibleSkipsGate(i) ==
    /\ pc = "gather"
    /\ task[i] = "waiting"
    /\ LET match == ProfileIdOf(PyOr(agents[i].profile_url, Some(<< >>))[1])
       IN  IF match # None
           THEN /\ ~Locked(semaphore)
                /\ semaphore' = Acquire(semaphore)
                /\ profile_id' = [profile_id EXCEPT ![i] = match]
                /\ task' = [task EXCEPT ![i] = "fetching"]
                /\ UNCHANGED result
           ELSE /\ result' = [result EXCEPT ![i] = Some(agents[i])]
                /\ task' = [task EXCEPT ![i] = "done"]
                /\ UNCHANGED <<semaphore, profile_id>>
    /\ UNCHANGED <<pc, agents, fetched, detailed_info, failed_profiles, response>>
    /\ UNCHANGED <<requested, profile_fetched, browser, hung, verify_vars, match_vars,
                   phone_vars, mcp_vars>>

\* Unit i enters  async with semaphore  and runs to its first suspension point:
\* with an identifier it calls scrape_agent_profile and is suspended holding the
\* permit; without one it returns the summary and leaves the block at once.
\* Any waiting unit may be the one that gets a free permit: every order in
\* which the event loop can start and wake the units is covered.
Enter(i) ==
    /\ pc = "gather"
    /\ task[i] = "waiting"
    /\ ~Locked(semaphore)
    /\ LET match == ProfileIdOf(PyOr(agents[i].profile_url, Some(<< >>))[1])
       IN  IF match # None
           THEN /\ semaphore' = Acquire(semaphore)
                /\ profile_id' = [profile_id EXCEPT ![i] = match]
                /\ task' = [task EXCEPT ![i] = "fetching"]
                /\ UNCHANGED result
           ELSE /\ semaphore' = Release(Acquire(semaphore))
                /\ result' = [result EXCEPT ![i] = Some(agents[i])]
                /\ task' = [task EXCEPT ![i] = "done"]
                /\ UNCHANGED profile_id
    /\ UNCHANGED <<pc, agents, fetched, detailed_info, failed_profiles, response>>
    /\ UNCHANGED <<requested, profile_fetched, browser, hung, verify_vars, match_vars,
                   phone_vars, mcp_vars>>

FetchReturnInPlace(i, info) ==
    /\ pc = "gather"
    /\ task[i] = "fetching"
    /\ detailed_info' = [detailed_info EXCEPT ![i] = info]
    /\ IF info # None
       THEN /\ fetched' = [fetched EXCEPT ![i] = "record"]
            /\ agents' = [agents EXCEPT ![i] = MergedInfo(agents[i], info[1])]
            /\ result' = [result EXCEPT ![i] = Some(agents'[i])]
       ELSE /\ fetched' = [fetched EXCEPT ![i] = "empty"]
            /\ result' = [result EXCEPT ![i] = Some(agents[i])]
            /\ UNCHANGED agents
    /\ task' = [task EXCEPT ![i] = "done"]
    /\ semaphore' = Release(semaphore)
    /\ UNCHANGED <<pc, profile_id, failed_profiles, response>>
    /\ UNCHANGED <<requested, profile_fetched, browser, hung, verify_vars, match_vars,
                   phone_vars, mcp_vars>>

\* detailed_info = await scrape_agent_profile(profile_id) returns info (a record
\* or None): a record is merged into a new AgentInfo, None falls through to
\* return agent.
FetchReturn(i, info) ==
    /\ pc = "gather"
    /\ task[i] = "fetching"
    /\ detailed_info' = [detailed_info EXCEPT ![i] = info]
    /\ IF info # None
       THEN /\ fetched' = [fetched EXCEPT ![i] = "record"]
            /\ result' = [result EXCEPT ![i] = Some(MergedInfo(agents[i], info[1]))]
       ELSE /\ fetched' = [fetched EXCEPT ![i] = "empty"]
            /\ result' = [result EXCEPT ![i] = Some(agents[i])]
    /\ task' = [task EXCEPT ![i] = "done"]
    /\ semaphore' = Release(semaphore)
    /\ UNCHANGED <<pc, agents, profile_id, failed_profiles, response>>
    /\ UNCHANGED <<requested, profile_fetched, browser, hung, verify_vars, match_vars,
                   phone_vars, mcp_vars>>

FetchRaiseEscapes(i) ==
    /\ pc = "gather"
    /\ task[i] = "fetching"
    /\ fetched' = [fetched EXCEPT ![i] = "raised"]
    /\ task' = [task EXCEPT ![i] = "done"]
    /\ semaphore' = Release(semaphore)
    /\ pc' = "done"
    /\ response' = HTTPException500(<<"Error scraping profile">>)
    /\ UNCHANGED <<agents, profile_id, detailed_info, result, failed_profiles>>
    /\ UNCHANGED <<requested, profile_fetched, browser, hung, verify_vars, match_vars,
                   phone_vars, mcp_vars>>

FetchRaiseKeepsPermit(i) ==
    /\ pc = "gather"
    /\ task[i] = "fetching"
    /\ fetched' = [fetched EXCEPT ![i] = "raised"]
    /\ failed_profiles' = AppendFailed(failed_profiles, agents[i].profile_url)
    /\ result' = [result EXCEPT ![i] = Some(agents[i])]
    /\ task' = [task EXCEPT ![i] = "done"]
    /\ UNCHANGED <<pc, agents, semaphore, profile_id, detailed_info, response>>
    /\ UNCHANGED <<requested, profile_fetched, browser, hung, verify_vars, match_vars,
                   phone_vars, mcp_vars>>

FetchRaiseSharedOutput(i) ==
    /\ pc = "gather"
    /\ task[i] = "fetching"
    /\ fetched' = [fetched EXCEPT ![i] = "raised"]
    /\ failed_profiles' = AppendFailed(failed_profiles, agents[i].profile_url)
    /\ result' = [j \in Units |-> IF j = i \/ task[j] = "done"
                                  THEN Some(agents[i])
                                  ELSE result[j]]
    /\ task' = [task EXCEPT ![i] = "done"]
    /\ semaphore' = Release(semaphore)
    /\ UNCHANGED <<pc, agents, profile_id, detailed_info, response>>
    /\ UNCHANGED <<requested, profile_fetched, browser, hung, verify_vars, match_vars,
                   phone_vars, mcp_vars>>

\* await scrape_agent_profile(profile_id) raises: the except branch records the
\* profile_url and returns the summary.
FetchRaise(i) ==
    /\ pc = "gather"
    /\ task[i] = "fetching"
    /\ fetched' = [fetched EXCEPT ![i] = "raised"]
    /\ failed_profiles' = AppendFailed(failed_profiles, agents[i].profile_url)
    /\ result' = [result EXCEPT ![i] = Some(agents[i])]
    /\ task' = [task EXCEPT ![i] = "done"]
    /\ semaphore' = Release(semaphore)
    /\ UNCHANGED <<pc, agents, profile_id, detailed_info, response>>
    /\ UNCHANGED <<requested, profile_fetched, browser, hung, verify_vars, match_vars,
                   phone_vars, mcp_vars>>

AnySettled == \E i \in Units : task[i] = "done"

\* asyncio.gather(*tasks) completes when every task has completed.
AllSettled == \A i \in Units : task[i] = "done"

GatheredChanged(results) ==
    SelectSeq([i \in 1..Len(results) |-> results[i][1]],
              LAMBDA r : r \notin SummaryRecords)

GatheredReversed(results) ==
    [i \in 1..Len(results) |-> results[Len(results) + 1 - i][1]]

\* The list gather returns: the units' return values in the order of the tasks.
Gathered(results) == [i \in 1..Len(results) |-> results[i][1]]

RespondWithoutJoin ==
    /\ pc = "gather"
    /\ response' = ScrapeResponse(agents, Message(Len(agents), failed_profiles))
    /\ pc' = "done"
    /\ UNCHANGED <<agents, task, semaphore, profile_id, fetched, detailed_info,
                   result, failed_profiles>>
    /\ UNCHANGED <<requested, profile_fetched, browser, hung, verify_vars, match_vars,
                   phone_vars, mcp_vars>>

\* detailed_agents = await asyncio.gather(*tasks) completes: build the response.
Respond ==
    /\ pc = "gather"
    /\ AllSettled
    /\ LET detailed_agents == Gathered(result)
       IN  response' = ScrapeResponse(detailed_agents,
                                      Message(Len(detailed_agents), failed_profiles))
    /\ pc' = "done"
    /\ UNCHANGED <<agents, task, semaphore, profile_id, fetched, detailed_info,
                   result, failed_profiles>>
    /\ UNCHANGED <<requested, profile_fetched, browser, hung, verify_vars, match_vars,
                   phone_vars, mcp_vars>>

\* HTTPException(status_code=404, detail=f"Agent profile '{profile_id}' not found")
HTTPException404(id) ==
    [status |-> 404, detail |-> <<"Agent profile '">> \o id \o <<"' not found">>]

\* What scrape_agent_profile(profile_id) raises.
ProfileErrors(id) ==
    {<<"Error scraping profile ">> \o id \o <<": ">> \o e : e \in {<<"timeout">>}}

ProfileReturnGenericPath(info) ==
    /\ pc = "profile"
    /\ IF info = None
       THEN /\ profile_fetched' = "empty"
            /\ response' = [status |-> 500,
                            detail |-> <<"Error scraping profile: ">>
                                           \o HTTPException404(requested[1]).detail]
       ELSE /\ profile_fetched' = "record"
            /\ response' = [status |-> 200, body |-> info[1]]
    /\ pc' = "done"
    /\ UNCHANGED <<agents, task, semaphore, profile_id, fetched, detailed_info,
                   result, failed_profiles, requested, browser, hung>>
    /\ UNCHANGED <<verify_vars, match_vars, phone_vars, mcp_vars>>

\* agent_info = await scrape_agent_profile(profile_id) returns info: None is
\* answered 404 (the HTTPException passes the handler's  except HTTPException:
\* raise), a record is the body of the 200 response.
ProfileReturn(info) ==
    /\ pc = "profile"
    /\ IF info = None
       THEN /\ profile_fetched' = "empty"
            /\ response' = HTTPException404(requested[1])
       ELSE /\ profile_fetched' = "record"
            /\ response' = [status |-> 200, body |-> info[1]]
    /\ pc' = "done"
    /\ UNCHANGED <<agents, task, semaphore, profile_id, fetched, detailed_info,
                   result, failed_profiles, requested, browser, hung>>
    /\ UNCHANGED <<verify_vars, match_vars, phone_vars, mcp_vars>>

\* await scrape_agent_profile(profile_id) raises e: the handler's
\* except Exception  answers 500.
ProfileRaise(e) ==
    /\ pc = "profile"
    /\ profile_fetched' = "raised"
    /\ response' = [status |-> 500, detail |-> <<"Error scraping profile: ">> \o e]
    /\ pc' = "done"
    /\ UNCHANGED <<agents, task, semaphore, profile_id, fetched, detailed_info,
                   result, failed_profiles, requested, browser, hung>>
    /\ UNCHANGED <<verify_vars, match_vars, phone_vars, mcp_vars>>

Next ==
    \/ SummaryReturn
    \/ \E e \in SummaryErrors : SummaryRaise(e)
    \/ \E i \in Units : Enter(i)
    \/ \E i \in Units : \E info \in DetailResults(profile_id[i]) : FetchReturn(i, info)
    \/ \E i \in Units : FetchRaise(i)
    \/ Respond
    \/ \E info \in DetailResults(requested) : ProfileReturn(info)
    \/ \E e \in (IF requested = None THEN {} ELSE ProfileErrors(requested[1])) :
          ProfileRaise(e)

Spec == Init /\ [][Next]_vars

(***************************************************************************)
(* The gather of get_all_agents_full with the calls of                     *)
(* scrape_agent_profile (src/scraper.py, lines 172-368) taken step by      *)
(* step: the browser of a call is launched, closed, and then the call      *)
(* returns or raises; a call may also never end.                           *)
(***************************************************************************)
MaxRun == 4

\* A summary with an identifier and one without.
RunRecords == {SummaryA, SummaryNoUrl}

RunBatches == UNION {[1..n -> RunRecords] : n \in 1..MaxRun}

\* The handler at  await asyncio.gather(*tasks),  scrape_agents having
\* returned a batch that is not empty (the state SummaryReturn leaves).
RunInit ==
    /\ pc = "gather"
    /\ requested = None
    /\ agents \in RunBatches
    /\ task = [i \in 1..Len(agents) |-> "waiting"]
    /\ semaphore = Permits
    /\ profile_id = [i \in 1..Len(agents) |-> None]
    /\ fetched = [i \in 1..Len(agents) |-> "no"]
    /\ detailed_info = [i \in 1..Len(agents) |-> None]
    /\ result = [i \in 1..Len(agents) |-> None]
    /\ failed_profiles = << >>
    /\ response = NoResponse
    /\ profile_fetched = "no"
    /\ browser = [i \in 1..Len(agents) |-> "none"]
    /\ hung = {}
    /\ VerifyIdle
    /\ MatchIdle
    /\ PhoneIdle
    /\ McpIdle

\* browser = await p.chromium.launch(...) returns in the call of unit i.
Launch(i) ==
    /\ pc = "gather"
    /\ task[i] = "fetching"
    /\ browser[i] = "none"
    /\ browser' = [browser EXCEPT ![i] = "open"]
    /\ UNCHANGED <<pc, agents, task, semaphore, profile_id, fetched, detailed_info,
                   result, failed_profiles, response, requested, profile_fetched,
                   hung>>
    /\ UNCHANGED <<verify_vars, match_vars, phone_vars, mcp_vars>>

\* The browser of the call of unit i is closed: await browser.close() before
\* return agent_info, await browser.close() in the except branch, or the exit
\* of  async with async_playwright()  when new_context or new_page raised.
Close(i) ==
    /\ pc = "gather"
    /\ task[i] = "fetching"
    /\ browser[i] = "open"
    /\ browser' = [browser EXCEPT ![i] = "closed"]
    /\ UNCHANGED <<pc, agents, task, semaphore, profile_id, fetched, detailed_info,
                   result, failed_profiles, response, requested, profile_fetched,
                   hung>>
    /\ UNCHANGED <<verify_vars, match_vars, phone_vars, mcp_vars>>

\* The call of unit i waits for ever on one of its awaits.
Hang(i) ==
    /\ pc = "gather"
    /\ task[i] = "fetching"
    /\ i \notin hung
    /\ hung' = hung \cup {i}
    /\ UNCHANGED <<pc, agents, task, semaphore, profile_id, fetched, detailed_info,
                   result, failed_profiles, response, requested, profile_fetched,
                   browser>>
    /\ UNCHANGED <<verify_vars, match_vars, phone_vars, mcp_vars>>

\* return agent_info,  after  await browser.close()
ProfileReturns(i, info) ==
    /\ browser[i] = "closed"
    /\ FetchReturn(i, info)

ProfileRaisesBrowserOpen(i) == FetchRaise(i)

\* raise Exception(f"Error scraping profile ..."),  after  await browser.close(),
\* or an exception of async_playwright() or of the launch, with no browser.
ProfileRaises(i) ==
    /\ browser[i] # "open"
    /\ FetchRaise(i)

\* The gather with every call of scrape_agent_profile taken step by step.
SessionNext ==
    \/ \E i \in Units : Enter(i)
    \/ \E i \in Units : Launch(i)
    \/ \E i \in Units : Close(i)
    \/ \E i \in Units : \E info \in DetailResults(profile_id[i]) : ProfileReturns(i, info)
    \/ \E i \in Units : ProfileRaises(i)
    \/ Respond

SessionSpec == RunInit /\ [][SessionNext]_vars

\* The call of unit i, which has not hung, returns info.
EndsReturn(i, info) ==
    /\ i \notin hung
    /\ FetchReturn(i, info)

\* The call of unit i, which has not hung, raises.
EndsRaise(i) ==
    /\ i \notin hung
    /\ FetchRaise(i)

\* The call of unit i ends, one way or the other.
Ends(i) ==
    \/ \E info \in DetailResults(profile_id[i]) : EndsReturn(i, info)
    \/ EndsRaise(i)

\* The gather with calls that may hang.
LiveNext ==
    \/ \E i \in Units : Enter(i)
    \/ \E i \in Units : \E info \in DetailResults(profile_id[i]) : EndsReturn(i, info)
    \/ \E i \in Units : EndsRaise(i)
    \/ \E i \in Units : Hang(i)
    \/ Respond

\* The event loop runs every coroutine that can run: a unit that can take a
\* permit takes one, a call that has not hung ends, the handler resumes when
\* the gather is complete.
LiveFair ==
    /\ \A i \in 1..MaxRun : WF_vars(i \in Units /\ Enter(i))
    /\ \A i \in 1..MaxRun : WF_vars(i \in Units /\ Ends(i))
    /\ WF_vars(Respond)

LiveSpec == RunInit /\ [][LiveNext]_vars /\ LiveFair

(***************************************************************************)
(* The match evaluator (src/main.py, lines 236-304).                       *)
(***************************************************************************)
UpperCase ==
    <<"A", "B", "C", "D", "E", "F", "G", "H", "I", "J", "K", "L", "M",
      "N", "O", "P", "Q", "R", "S", "T", "U", "V", "W", "X", "Y", "Z">>

LowerCase ==
    <<"a", "b", "c", "d", "e", "f", "g", "h", "i", "j", "k", "l", "m",
      "n", "o", "p", "q", "r", "s", "t", "u", "v", "w", "x", "y", "z">>

\* str.lower(), on ASCII text
lower(str) ==
    [k \in 1..Len(str) |->
        IF \E j \in 1..26 : UpperCase[j] = str[k]
        THEN LowerCase[CHOOSE j \in 1..26 : UpperCase[j] = str[k]]
        ELSE str[k]]

\* The characters str.strip() trims and \s matches, on ASCII text.
Whitespace == {" ", "\t", "\n", "\r", "\f"}

\* str.strip()
strip(str) ==
    LET kept == {k \in 1..Len(str) : str[k] \notin Whitespace}
    IN  IF kept = {}
        THEN << >>
        ELSE SubSeq(str, CHOOSE k \in kept : \A j \in kept : k <= j,
                         CHOOSE k \in kept : \A j \in kept : j <= k)

\* r'[\s\-\(\)\+]'
PhoneFormatting == Whitespace \cup {"-", "(", ")", "+"}

\* re.sub(r'[\s\-\(\)\+]', '', str)
re_sub(str) == SelectSeq(str, LAMBDA c : c \notin PhoneFormatting)

\* normalize_string(s): None for None and for "", else s.lower().strip()
normalize_string(s) == IF ~Truthy(s) THEN None ELSE Some(strip(lower(s[1])))

re_sub_keep_parens(str) ==
    SelectSeq(str, LAMBDA c : c \notin PhoneFormatting \ {"(", ")"})

RECURSIVE lstrip_plus(_)
lstrip_plus(str) ==
    IF str # << >> /\ Head(str) = "+" THEN lstrip_plus(Tail(str)) ELSE str

normalize_phone_keep_parens(phone) ==
    IF ~Truthy(phone) THEN None ELSE Some(lower(re_sub_keep_parens(phone[1])))

normalize_phone_leading_plus(phone) ==
    IF ~Truthy(phone)
    THEN None
    ELSE Some(lower(lstrip_plus(
             SelectSeq(phone[1], LAMBDA c : c \notin PhoneFormatting \ {"+"}))))

\* normalize_phone(phone): None for None and for "", else the phone without
\* the characters of the pattern, lower-cased
normalize_phone(phone) ==
    IF ~Truthy(phone) THEN None ELSE Some(lower(re_sub(phone[1])))

\* normalize_email(email): None for None and for "", else email.lower().strip()
normalize_email(email) ==
    IF ~Truthy(email) THEN None ELSE Some(strip(lower(email[1])))

\* The four fields agent_matches compares, and the normalizer of each.
MatchFields == {"name", "email", "phone", "license"}

Normalized(f, v) ==
    CASE f = "email" -> normalize_email(v)
      [] f = "phone" -> normalize_phone(v)
      [] OTHER -> normalize_string(v)

\* The fields that pass  if provided.<field>:  (each adds one to total_fields)
Supplied(provided) == {f \in MatchFields : Truthy(provided[f])}

\* if provided_x and scraped_x and provided_x == scraped_x
FieldMatches(provided, scraped, f) ==
    LET provided_x == Normalized(f, provided[f])
        scraped_x == Normalized(f, scraped[f])
    IN  Truthy(provided_x) /\ Truthy(scraped_x) /\ provided_x = scraped_x

total_fields(provided) == Cardinality(Supplied(provided))

match_count(provided, scraped) ==
    Cardinality({f \in Supplied(provided) : FieldMatches(provided, scraped, f)})

agent_matches_any(provided, scraped) == match_count(provided, scraped) > 0

agent_matches_vacuous(provided, scraped) ==
    match_count(provided, scraped) = total_fields(provided)

\* agent_matches(provided, scraped)
agent_matches(provided, scraped) ==
    IF total_fields(provided) = 0
    THEN FALSE
    ELSE /\ match_count(provided, scraped) = total_fields(provided)
         /\ match_count(provided, scraped) > 0

\* AgentVerificationRequest(): every field defaults to None
AgentVerificationRequest == [f \in MatchFields |-> None]

\* The query values and the candidate values of the modelled calls.
QueryNames == {None, Some(<< >>), Some(<<" ">>), Some(<<"J", "a", "n", "e", " ", "D", "o", "e">>)}

QueryEmails == {None, Some(<<"J", "A", "N", "E", "@", "X", ".", "C", "O", "M">>), Some(<<" ", "j", "a", "n", "e", "@", "x", ".", "c", "o", "m", " ">>)}

QueryPhones == {None, Some(<<"(", "5", "5", "5", ")", " ", "1", "2", "3", "-", "4", "5", "6", "7">>), Some(<<"+">>)}

QueryLicenses == {None, Some(<<"l", "1", " ">>)}

CandidateNames == {None, Some(<<" ">>), Some(<<"j", "a", "n", "e", " ", "d", "o", "e">>), Some(<<"B", "o", "b">>)}

CandidateEmails == {None, Some(<<"j", "a", "n", "e", "@", "x", ".", "c", "o", "m">>), Some(<<"o", "t", "h", "e", "r", "@", "x", ".", "c", "o", "m">>)}

CandidatePhones == {None, Some(<<"5", "5", "5", "-", "1", "2", "3", "-", "4", "5", "6", "7">>), Some(<<"+", "5", "5", "5", "1", "2", "3", "4", "5", "6", "7">>), Some(<<"5", "5", "5", "-", "1", "2", "3", "-", "4", "5", "6", "8">>), Some(<<"(", ")">>)}

CandidateLicenses == {None, Some(<<"L", "1">>), Some(<<"L", "2">>)}

Queries ==
    [name : QueryNames, email : QueryEmails, phone : QueryPhones,
     license : QueryLicenses]

Candidates ==
    {[AgentInfo EXCEPT !.name = n, !.email = e, !.phone = ph, !.license = l] :
        n \in CandidateNames, e \in CandidateEmails, ph \in CandidatePhones,
        l \in CandidateLicenses}

\* One call agent_matches(provided, scraped) on any query and any candidate.
MatchInit ==
    /\ m_pc = "call"
    /\ m_provided \in Queries
    /\ m_scraped \in Candidates
    /\ m_result = FALSE
    /\ EnrichIdle
    /\ VerifyIdle
    /\ PhoneIdle
    /\ McpIdle

Match ==
    /\ m_pc = "call"
    /\ m_result' = agent_matches(m_provided, m_scraped)
    /\ m_pc' = "return"
    /\ UNCHANGED <<m_provided, m_scraped>>
    /\ UNCHANGED <<enrich_vars, verify_vars, phone_vars, mcp_vars>>

MatchNext == Match

MatchSpec == MatchInit /\ [][MatchNext]_vars

(***************************************************************************)
(* normalize_phone on its own (src/main.py, lines 243-249).                *)
(***************************************************************************)
MaxPhoneLen == 3

\* A digit, an upper-case and a lower-case letter, two whitespace characters
\* and the four punctuation characters of the pattern.
PhoneAlphabet == {"5", "A", "a", " ", "\t", "-", "(", ")", "+"}

PhoneStrings == UNION {[1..n -> PhoneAlphabet] : n \in 0..MaxPhoneLen}

\* One call normalize_phone(phone) on None or on any string.
PhoneInit ==
    /\ n_pc = "call"
    /\ n_phone \in {None} \cup {Some(str) : str \in PhoneStrings}
    /\ n_result = None
    /\ EnrichIdle
    /\ VerifyIdle
    /\ MatchIdle
    /\ McpIdle

NormalizePhone ==
    /\ n_pc = "call"
    /\ n_result' = normalize_phone(n_phone)
    /\ n_pc' = "return"
    /\ UNCHANGED n_phone
    /\ UNCHANGED <<enrich_vars, verify_vars, match_vars, mcp_vars>>

PhoneNext == NormalizePhone

PhoneSpec == PhoneInit /\ [][PhoneNext]_vars

(***************************************************************************)
(* The handlers verify_agent and verify_agent_mcp (src/main.py, lines      *)
(* 307-426).                                                               *)
(***************************************************************************)
MaxCandidates == 3

Endpoints == {"verify-agent", "verify-agent-mcp"}

\* The request bodies of the modelled requests.
VerifyRequests ==
    {AgentVerificationRequest,
     [AgentVerificationRequest EXCEPT !.name = Some(<< >>), !.email = Some(<< >>)],
     [AgentVerificationRequest EXCEPT !.name = Some(<<"J", "a", "n", "e", " ", "D", "o", "e">>), !.email = Some(<<"J", "A", "N", "E", "@", "X", ".", "C", "O", "M">>)],
     [AgentVerificationRequest EXCEPT !.phone = Some(<<"(", "5", "5", "5", ")", " ", "1", "2", "3", "-", "4", "5", "6", "7">>)],
     [AgentVerificationRequest EXCEPT !.name = Some(<<" ">>)],
     [AgentVerificationRequest EXCEPT !.name = Some(<<"J", "a", "n", "e", " ", "D", "o", "e">>)],
     [AgentVerificationRequest EXCEPT !.license = Some(<<"l", "1", " ">>)]}

\* The records the page scrape builds: AgentInfo(name=, email=, phone=, license=)
PageCandidates ==
    {[AgentInfo EXCEPT !.name = Some(<<"j", "a", "n", "e", " ", "d", "o", "e">>), !.email = Some(<<"j", "a", "n", "e", "@", "x", ".", "c", "o", "m">>), !.phone = Some(<<"5", "5", "5", "-", "1", "2", "3", "-", "4", "5", "6", "7">>),
                       !.license = Some(<<"L", "1">>)],
     [AgentInfo EXCEPT !.name = Some(<<"j", "a", "n", "e", " ", "d", "o", "e">>), !.email = Some(<<"o", "t", "h", "e", "r", "@", "x", ".", "c", "o", "m">>), !.phone = Some(<<"+", "5", "5", "5", "1", "2", "3", "4", "5", "6", "7">>)],
     [AgentInfo EXCEPT !.name = Some(<<" ">>), !.phone = Some(<<"(", ")">>)],
     [AgentInfo EXCEPT !.name = Some(<<"B", "o", "b">>), !.license = Some(<<"L", "2">>)]}

Pages == UNION {[1..n -> PageCandidates] : n \in 0..MaxCandidates}

\* What scrape_local_agents_page / scrape_local_agents_page_mcp raises.
PageErrors(e) ==
    IF e = "verify-agent"
    THEN {<<"Error scraping local agents page: timeout">>}
    ELSE {<<"Error scraping local agents page with Playwright MCP: timeout">>}

\* The end of the two messages of verify_agent_mcp.
Via(e) == IF e = "verify-agent" THEN << >> ELSE <<" (via Playwright MCP)">>

\* any([agent_details.name, agent_details.email, agent_details.phone, agent_details.license])
any(details) == \E f \in MatchFields : Truthy(details[f])

HTTPException400 ==
    [status |-> 400,
     detail |-> <<"At least one field (name, email, phone, or license) must be provided">>]

\* HTTPException(status_code=500, detail=f"Error verifying agent: {str(e)}"), and
\* f"Error verifying agent with Playwright MCP: {str(e)}"
VerifyException500(e, err) ==
    [status |-> 500,
     detail |-> (IF e = "verify-agent"
                 THEN <<"Error verifying agent: ">>
                 ELSE <<"Error verifying agent with Playwright MCP: ">>) \o err]

\* AgentVerificationResponse(match=, message=, matched_agent=, provided_details=)
AgentVerificationResponse(match, message, matched, details) ==
    [status |-> 200, match |-> match, message |-> message,
     matched_agent |-> matched, provided_details |-> details]

\* One request to /verify-agent or /verify-agent-mcp.
VerifyInit ==
    /\ v_pc = "validate"
    /\ endpoint \in Endpoints
    /\ agent_details \in VerifyRequests
    /\ scrapes = 0
    /\ scraped_agents = << >>
    /\ index = 0
    /\ evaluated = {}
    /\ matched_agent = None
    /\ v_response = NoResponse
    /\ EnrichIdle
    /\ MatchIdle
    /\ PhoneIdle
    /\ McpIdle

ValidateGenericPath ==
    /\ v_pc = "validate"
    /\ IF ~any(agent_details)
       THEN /\ v_response' = VerifyException500(endpoint, HTTPException400.detail)
            /\ v_pc' = "done"
            /\ UNCHANGED scrapes
       ELSE /\ scrapes' = scrapes + 1
            /\ v_pc' = "scrape"
            /\ UNCHANGED v_response
    /\ UNCHANGED <<endpoint, agent_details, scraped_agents, index, evaluated,
                   matched_agent>>
    /\ UNCHANGED <<enrich_vars, match_vars, phone_vars, mcp_vars>>

\* The handler up to its first await: a body without a field is answered 400
\* (the HTTPException passes  except HTTPException: raise), otherwise the page
\* scrape is started.
Validate ==
    /\ v_pc = "validate"
    /\ IF ~any(agent_details)
       THEN /\ v_response' = HTTPException400
            /\ v_pc' = "done"
            /\ UNCHANGED scrapes
       ELSE /\ scrapes' = scrapes + 1
            /\ v_pc' = "scrape"
            /\ UNCHANGED v_response
    /\ UNCHANGED <<endpoint, agent_details, scraped_agents, index, evaluated,
                   matched_agent>>
    /\ UNCHANGED <<enrich_vars, match_vars, phone_vars, mcp_vars>>

\* scraped_agents = await scrape_local_agents_page(base_url) returns page;
\* matched_agent = None and the for loop starts.
ScrapeReturn(page) ==
    /\ v_pc = "scrape"
    /\ scraped_agents' = page
    /\ matched_agent' = None
    /\ index' = 1
    /\ v_pc' = "loop"
    /\ UNCHANGED <<endpoint, agent_details, scrapes, evaluated, v_response>>
    /\ UNCHANGED <<enrich_vars, match_vars, phone_vars, mcp_vars>>

\* The page scrape raises err: except Exception answers 500.
ScrapeRaise(err) ==
    /\ v_pc = "scrape"
    /\ v_response' = VerifyException500(endpoint, err)
    /\ v_pc' = "done"
    /\ UNCHANGED <<endpoint, agent_details, scrapes, scraped_agents, index,
                   evaluated, matched_agent>>
    /\ UNCHANGED <<enrich_vars, match_vars, phone_vars, mcp_vars>>

LoopStepNoBreak ==
    /\ v_pc = "loop"
    /\ index <= Len(scraped_agents)
    /\ evaluated' = evaluated \cup {index}
    /\ matched_agent' = IF agent_matches(agent_details, scraped_agents[index])
                        THEN Some(scraped_agents[index])
                        ELSE matched_agent
    /\ index' = index + 1
    /\ UNCHANGED <<v_pc, endpoint, agent_details, scrapes, scraped_agents, v_response>>
    /\ UNCHANGED <<enrich_vars, match_vars, phone_vars, mcp_vars>>

\* One iteration of  for agent in scraped_agents:  a match is kept and ends
\* the loop (break).
LoopStep ==
    /\ v_pc = "loop"
    /\ matched_agent = None
    /\ index <= Len(scraped_agents)
    /\ evaluated' = evaluated \cup {index}
    /\ IF agent_matches(agent_details, scraped_agents[index])
       THEN /\ matched_agent' = Some(scraped_agents[index])
            /\ UNCHANGED index
       ELSE /\ index' = index + 1
            /\ UNCHANGED matched_agent
    /\ UNCHANGED <<v_pc, endpoint, agent_details, scrapes, scraped_agents, v_response>>
    /\ UNCHANGED <<enrich_vars, match_vars, phone_vars, mcp_vars>>

\* After the loop:  if matched_agent:  ... else: ...
VerifyRespond ==
    /\ v_pc = "loop"
    /\ matched_agent # None \/ index > Len(scraped_agents)
    /\ v_response' =
          IF matched_agent # None
          THEN AgentVerificationResponse(TRUE,
                   <<"Agent details match found on website">> \o Via(endpoint),
                   matched_agent, agent_details)
          ELSE AgentVerificationResponse(FALSE,
                   <<"Agent details not found on website">> \o Via(endpoint),
                   None, agent_details)
    /\ v_pc' = "done"
    /\ UNCHANGED <<endpoint, agent_details, scrapes, scraped_agents, index,
                   evaluated, matched_agent>>
    /\ UNCHANGED <<enrich_vars, match_vars, phone_vars, mcp_vars>>

VerifyNext ==
    \/ Validate
    \/ \E page \in Pages : ScrapeReturn(page)
    \/ \E err \in PageErrors(endpoint) : ScrapeRaise(err)
    \/ LoopStep
    \/ VerifyRespond

VerifySpec == VerifyInit /\ [][VerifyNext]_vars

(***************************************************************************)
(* scrape_agents_full_mcp (src/scraper_mcp.py, lines 13-242) behind        *)
(* GET /scrape-agents-full-mcp (src/main.py, lines 187-209).               *)
(***************************************************************************)
MaxLinks == 3

\* A link of the search page as the extraction script returns it: the absolute
\* URL, the alt text of the image ('' without one) and its src (null without).
LinkA ==
    [url |-> ProfileUrl(<<"a">>), name |-> Some(<<"A", "l">>),
     imageUrl |-> Some(<<"i", "a">>)]

\* A link with a query string and an image without alt text.
LinkB ==
    [url |-> ProfileUrl(<<"b">>) \o <<"?", "r">>, name |-> Some(<< >>),
     imageUrl |-> Some(<<"i", "b">>)]

\* A link as the HTML fallback builds it: the URL only.
LinkFallback ==
    [url |-> ProfileUrl(<<"c">>), name |-> None, imageUrl |-> None]

\* A link  <a href="/profile/">: it satisfies the selector a[href*="/profile/"]
\* and carries no identifier.
LinkEmptyId ==
    [url |-> Host \o ProfilePath, name |-> Some(<<"E", "m">>), imageUrl |-> None]

Links == {LinkA, LinkB, LinkFallback, LinkEmptyId}

\* agent_links_data: at most MaxLinks links, no URL twice (seenUrls).
LinkBatches ==
    {batch \in UNION {[1..n -> Links] : n \in 0..MaxLinks} :
        \A i, j \in 1..Len(batch) : batch[i].url = batch[j].url => i = j}

\* str(e) of what the search page's steps raise.
LinkErrors == {<<"Navigation failed">>, <<"MCP server not running">>}

McpUnits == 1..Len(agent_links_data)

\* GET /scrape-agents-full-mcp is received.
McpInit ==
    /\ c_pc = "links"
    /\ agent_links_data = << >>
    /\ c_task = << >>
    /\ c_semaphore = Permits
    /\ c_results = << >>
    /\ c_response = NoResponse
    /\ EnrichIdle
    /\ VerifyIdle
    /\ MatchIdle
    /\ PhoneIdle

\* AgentInfo(name=agent_data.get("name"), profile_url=..., image_url=agent_data.get("imageUrl"))
BasicInfo(agent_data) ==
    [AgentInfo EXCEPT !.name = agent_data.name,
                      !.profile_url = Some(agent_data.url),
                      !.image_url = agent_data.imageUrl]

\* AgentInfo(name=detailed_info.name or agent_data.get("name"), ...,
\*           profile_url=profile_url, ...,
\*           image_url=detailed_info.image_url or agent_data.get("imageUrl"), ...)
McpMergedInfo(agent_data, detail) ==
    [f \in Fields |->
        CASE f = "profile_url" -> Some(agent_data.url)
          [] f = "name" -> PyOr(detail.name, agent_data.name)
          [] f = "image_url" -> PyOr(detail.image_url, agent_data.imageUrl)
          [] OTHER -> detail[f]]

\* f"Successfully scraped {len(agents)} agents with full details using Playwright MCP"
McpMessage(n) ==
    <<"Successfully scraped ", n, " agents with full details using Playwright MCP">>

\* raise Exception(f"Error scraping agents with Playwright MCP: {str(e)}"), then
\* HTTPException(status_code=500, detail=f"Error scraping agents with Playwright MCP: {str(e)}")
McpException500(e) ==
    [status |-> 500,
     detail |-> <<"Error scraping agents with Playwright MCP: ",
                  "Error scraping agents with Playwright MCP: ">> \o e]

\* The search page is read: agent_links_data is set, one task per link is
\* created and the function awaits the gather.
LinksReturn ==
    /\ c_pc = "links"
    /\ \E batch \in LinkBatches :
        /\ agent_links_data' = batch
        /\ c_task' = [i \in 1..Len(batch) |-> "waiting"]
        /\ c_results' = [i \in 1..Len(batch) |-> None]
    /\ c_pc' = "gather"
    /\ UNCHANGED <<c_semaphore, c_response>>
    /\ UNCHANGED <<enrich_vars, verify_vars, match_vars, phone_vars>>

\* A step of the search page raises e: the function re-raises, the handler
\* answers 500.
LinksRaise(e) ==
    /\ c_pc = "links"
    /\ c_response' = McpException500(e)
    /\ c_pc' = "done"
    /\ UNCHANGED <<agent_links_data, c_task, c_semaphore, c_results>>
    /\ UNCHANGED <<enrich_vars, verify_vars, match_vars, phone_vars>>

\* get_detailed_info(agent_data) up to its first await: it takes a permit and
\* searches the URL for '/profile/<id>'; with an identifier it calls
\* scrape_agent_profile, without one it returns None.
McpEnter(i) ==
    /\ c_pc = "gather"
    /\ c_task[i] = "waiting"
    /\ ~Locked(c_semaphore)
    /\ IF ProfileIdOf(agent_links_data[i].url) # None
       THEN /\ c_semaphore' = Acquire(c_semaphore)
            /\ c_task' = [c_task EXCEPT ![i] = "fetching"]
       ELSE /\ c_semaphore' = Release(Acquire(c_semaphore))
            /\ c_task' = [c_task EXCEPT ![i] = "done"]
    /\ UNCHANGED <<c_pc, agent_links_data, c_results, c_response>>
    /\ UNCHANGED <<enrich_vars, verify_vars, match_vars, phone_vars>>

\* scrape_agent_profile(profile_id) returns info: a record is merged with the
\* link's data, None gives the link's basic record.
McpFetchReturn(i, info) ==
    /\ c_pc = "gather"
    /\ c_task[i] = "fetching"
    /\ c_results' =
          [c_results EXCEPT ![i] =
              IF info # None
              THEN Some(McpMergedInfo(agent_links_data[i], info[1]))
              ELSE Some(BasicInfo(agent_links_data[i]))]
    /\ c_task' = [c_task EXCEPT ![i] = "done"]
    /\ c_semaphore' = Release(c_semaphore)
    /\ UNCHANGED <<c_pc, agent_links_data, c_response>>
    /\ UNCHANGED <<enrich_vars, verify_vars, match_vars, phone_vars>>

\* scrape_agent_profile(profile_id) raises: the except clause returns the
\* link's basic record.
McpFetchRaise(i) ==
    /\ c_pc = "gather"
    /\ c_task[i] = "fetching"
    /\ c_results' = [c_results EXCEPT ![i] = Some(BasicInfo(agent_links_data[i]))]
    /\ c_task' = [c_task EXCEPT ![i] = "done"]
    /\ c_semaphore' = Release(c_semaphore)
    /\ UNCHANGED <<c_pc, agent_links_data, c_response>>
    /\ UNCHANGED <<enrich_vars, verify_vars, match_vars, phone_vars>>

\* detailed_agents: the results that are not None, in the order of the tasks.
NotNone(list) ==
    LET kept == SelectSeq(list, LAMBDA r : r # None)
    IN  [i \in 1..Len(kept) |-> kept[i][1]]

\* The gather is complete: the function returns detailed_agents and the
\* handler answers with them.
McpRespond ==
    /\ c_pc = "gather"
    /\ \A i \in McpUnits : c_task[i] = "done"
    /\ LET detailed_agents == NotNone(c_results)
       IN  c_response' = ScrapeResponse(detailed_agents, McpMessage(Len(detailed_agents)))
    /\ c_pc' = "done"
    /\ UNCHANGED <<agent_links_data, c_task, c_semaphore, c_results>>
    /\ UNCHANGED <<enrich_vars, verify_vars, match_vars, phone_vars>>

McpNext ==
    \/ LinksReturn
    \/ \E e \in LinkErrors : LinksRaise(e)
    \/ \E i \in McpUnits : McpEnter(i)
    \/ \E i \in McpUnits :
          \E info \in DetailResults(ProfileIdOf(agent_links_data[i].url)) :
              McpFetchReturn(i, info)
    \/ \E i \in McpUnits : McpFetchRaise(i)
    \/ McpRespond

McpSpec == McpInit /\ [][McpNext]_vars

(***************************************************************************)
(* Vocabulary of the properties.                                           *)
(***************************************************************************)
\* The units whose detail fetch is in flight.
InFlight == {i \in Units : task[i] = "fetching"}

\* The units whose detail fetch ended in the given way.
Ended(how) == {i \in Units : fetched[i] = how}

\* The request has been answered with the success envelope of a non-empty batch.
Answered == pc = "done" /\ response.status = 200 /\ agents # << >>

\* A field value is present: neither null nor empty.
Present(v) == v # None /\ v[1] # << >>

\* The URL has a '/profile/<id>' segment whose id, ending at the next '/' or
\* '?', is not empty.
HasProfileId(url) ==
    /\ url # None
    /\ \E k \in 1..Len(url[1]) :
          /\ k + 9 <= Len(url[1])
          /\ SubSeq(url[1], k, k + 8) = <<"/", "p", "r", "o", "f", "i", "l", "e", "/">>
          /\ url[1][k + 9] # "/"
          /\ url[1][k + 9] # "?"

\* C1: a batch of N >= 1 summaries is answered with exactly N records and
\* total_agents = N, whatever the outcomes of the detail fetches and their order.
C1_OutputCardinality ==
    (pc = "done" /\ agents # << >>) =>
        /\ response.status = 200
        /\ Len(response.agents) = Len(agents)
        /\ response.total_agents = Len(agents)

C1_Witness ==
    /\ Answered
    /\ Len(agents) >= 4
    /\ Ended("record") # {} /\ Ended("empty") # {} /\ Ended("raised") # {}
    /\ \E i \in Units : ~HasProfileId(agents[i].profile_url)
    /\ response.total_agents = Len(agents)

\* C2: at most 3 detail fetches are in flight at any time.
C2_ConcurrencyCap == Cardinality(InFlight) <= 3

C2_Witness ==
    /\ Cardinality(InFlight) = 3
    /\ \E i \in Units : task[i] = "waiting" /\ HasProfileId(agents[i].profile_url)

\* C3: a permit is held exactly by the units whose fetch is in flight (each
\* acquired permit is given back once, on every way the fetch can end), the
\* held permits number between 0 and 3, and all are free once all units settled.
C3_PermitsReleased ==
    /\ semaphore \in 0..3
    /\ 3 - semaphore = Cardinality(InFlight)
    /\ (pc # "summary" /\ AllSettled) => semaphore = 3

C3_Witness ==
    /\ pc = "gather"
    /\ AllSettled
    /\ Len(agents) >= 4
    /\ Ended("record") # {} /\ Ended("empty") # {} /\ Ended("raised") # {}
    /\ semaphore = 3

\* C4: after a successful detail fetch the unit's output has, in every field but
\* profile_url, the detail value when present and else the summary value, and
\* its profile_url is the summary's.
C4_MergePrecedence ==
    \A i \in Ended("record") :
        LET detail == DetailRecord(profile_id[i][1])
            output == result[i][1]
        IN  /\ \A f \in Fields \ {"profile_url"} :
                  output[f] = IF Present(detail[f]) THEN detail[f] ELSE agents[i][f]
            /\ output.profile_url = agents[i].profile_url
            /\ Answered => response.agents[i] = output

C4_Witness ==
    \E i \in Ended("record") :
        /\ Answered
        /\ agents[i] = SummaryB
        /\ DetailRecord(profile_id[i][1]).profile_url # agents[i].profile_url
        /\ response.agents[i].phone = Some(<<"5">>)
        /\ response.agents[i].name = Some(<< >>)
        /\ response.agents[i].office = Some(<<"o", "b">>)
        /\ response.agents[i].location = None

\* C5: when the detail fetch of unit i raises, the output at position i is the
\* summary of unit i, unchanged, and the failure counter grows by exactly 1.
C5_RaiseFallsBack ==
    /\ [](\A i \in Ended("raised") :
            /\ result[i] = Some(agents[i])
            /\ Answered => response.agents[i] = agents[i])
    /\ [][\A i \in Units :
            (fetched[i] # "raised" /\ fetched'[i] = "raised") =>
                Len(failed_profiles') = Len(failed_profiles) + 1]_vars

C5_Witness ==
    /\ Answered
    /\ \E i \in Ended("raised") :
          /\ \E j \in Ended("record") : j < i
          /\ response.agents[i] = agents[i]
    /\ Len(failed_profiles) = Cardinality(Ended("raised"))

C7_IneligibleSkipped ==
    \A i \in Units :
        ~HasProfileId(agents[i].profile_url) =>
            /\ task[i] # "fetching"
            /\ profile_id[i] = None
            /\ fetched[i] = "no"
            /\ task[i] = "done" => result[i] = Some(agents[i])
            /\ Answered => response.agents[i] = agents[i]
            /\ \A k \in 1..Len(failed_profiles) :
                  failed_profiles[k] # agents[i].profile_url

C7_Witness ==
    /\ Answered
    /\ \E i, j \in Units :
          /\ agents[i] = SummaryNoUrl
          /\ agents[j] = SummaryEmptyId
          /\ response.agents[i] = agents[i]
          /\ response.agents[j] = agents[j]
    /\ Len(failed_profiles) = 1

\* C8: the response is produced only once every unit has settled: never while a
\* unit waits for a permit or has its detail fetch in flight.
C8_JoinAll ==
    response # NoResponse =>
        \A i \in Units : task[i] # "waiting" /\ task[i] # "fetching"

C8_Witness ==
    /\ Answered
    /\ Len(agents) >= 4
    /\ \A i \in Units : fetched[i] # "no"

\* C9: whichever units' detail fetches raise, the request is never answered
\* with a 500: it gets the success envelope with a record for every unit, the
\* summary for a unit that raised and for every other unit what its own fetch
\* yields.
C9_UnitFailureIsLocal ==
    agents # << >> =>
        /\ response.status # 500
        /\ (pc = "done" /\ Ended("raised") # {}) =>
              /\ response.status = 200
              /\ response.success
              /\ Len(response.agents) = Len(agents)
              /\ \A i \in Units :
                    response.agents[i] =
                        IF fetched[i] = "record"
                        THEN MergedInfo(agents[i], DetailRecord(profile_id[i][1]))
                        ELSE agents[i]

C9_Witness ==
    /\ Answered
    /\ Len(agents) >= 4
    /\ \A i \in Units : fetched[i] = "raised"
    /\ response.agents = agents

\* C10: when the summary fetch raises e, the request is answered 500 with e's
\* message, and no unit exists, no detail fetch was made and no permit is taken.
C10_SummaryFailureAborts ==
    /\ [][\A e \in SummaryErrors :
            SummaryRaise(e) =>
                /\ response'.status = 500
                /\ response'.detail =
                      <<"Error scraping agents with full details: ">> \o e]_vars
    /\ [](response.status = 500 =>
            /\ pc = "done"
            /\ task = << >>
            /\ profile_id = << >>
            /\ semaphore = 3)

C10_Witness ==
    /\ pc = "done"
    /\ response.status = 500
    /\ response.detail = <<"Error scraping agents with full details: ",
                           "Error scraping agents: ", "Timeout 60000ms exceeded">>
    /\ semaphore = 3

\* The record is the complete merge of the summary with the detail record:
\* every field follows the precedence rule.
IsFullMerge(record, summary, detail) ==
    \A f \in Fields :
        record[f] = IF f # "profile_url" /\ Present(detail[f]) THEN detail[f]
                    ELSE summary[f]

\* C11: every record a unit emits, and every record of the response, is the
\* complete merge of its summary with the fetched detail record or exactly the
\* summary: never a record with some fields merged and others not.
C11_NoHalfMerge ==
    \A i \in Units :
        /\ task[i] = "done" =>
              \/ result[i] = Some(agents[i])
              \/ /\ fetched[i] = "record"
                 /\ IsFullMerge(result[i][1], agents[i], DetailRecord(profile_id[i][1]))
        /\ Answered =>
              \/ response.agents[i] = agents[i]
              \/ /\ fetched[i] = "record"
                 /\ IsFullMerge(response.agents[i], agents[i],
                                DetailRecord(profile_id[i][1]))

C11_Witness ==
    /\ Answered
    /\ \E i \in Ended("record") :
          /\ response.agents[i] # agents[i]
          /\ response.agents[i] # DetailRecord(profile_id[i][1])
          /\ response.agents[i].email = agents[i].email
          /\ response.agents[i].phone = DetailRecord(profile_id[i][1]).phone
    /\ \E j \in Ended("empty") : response.agents[j] = agents[j]
    /\ \E j \in Ended("raised") : response.agents[j] = agents[j]

\* C12: enrichment leaves its inputs as they were: the summaries scrape_agents
\* returned never change, and a detail record stays as scrape_agent_profile
\* returned it; the merge is a record of its own.
C12_InputsUnchanged ==
    /\ [][pc = "gather" => agents' = agents]_vars
    /\ [][\A i \in Units :
            detailed_info[i] # None => detailed_info'[i] = detailed_info[i]]_vars
    /\ [](\A i \in Ended("record") :
            detailed_info[i] = Some(DetailRecord(profile_id[i][1])))

C12_Witness ==
    /\ Answered
    /\ \E i \in Ended("record") :
          /\ response.agents[i] # agents[i]
          /\ response.agents[i] # detailed_info[i][1]
          /\ agents[i] = SummaryB
          /\ detailed_info[i] = Some(DetailSparse(<<"b">>))

\* C20: GET /scrape-profile/{profile_id} answers 404 exactly when
\* scrape_agent_profile returned no record, 500 when it raised, and the record
\* otherwise; inside the batch enrichment an empty detail result is never a
\* 404: the unit falls back to its summary and the request is answered 200.
C20_NotFoundOnlyForSingleProfile ==
    /\ (pc = "done" /\ requested # None) =>
          /\ response.status = 404 <=> profile_fetched = "empty"
          /\ response.status = 500 <=> profile_fetched = "raised"
          /\ response.status = 200 <=> profile_fetched = "record"
          /\ profile_fetched = "record" =>
                response.body = DetailRecord(requested[1])
          /\ profile_fetched = "empty" =>
                response.detail = <<"Agent profile '">> \o requested[1]
                                      \o <<"' not found">>
    /\ requested = None =>
          /\ response.status # 404
          /\ \A i \in Ended("empty") : result[i] = Some(agents[i])
          /\ Answered => \A i \in Ended("empty") : response.agents[i] = agents[i]

C20_Witness ==
    /\ pc = "done"
    /\ requested = Some(<<"a">>)
    /\ profile_fetched = "empty"
    /\ response.status = 404

C20_WitnessBatch == Answered /\ Ended("empty") # {} /\ response.status = 200

\* The candidate's field f is missing, or its normalized value is not the
\* normalized query value.
Disagrees(provided, scraped, f) ==
    \/ scraped[f] = None
    \/ Normalized(f, scraped[f]) # Normalized(f, provided[f])

C14_AgreementMatches ==
    m_pc = "return" =>
        ((/\ Supplied(m_provided) # {}
          /\ \A f \in Supplied(m_provided) : ~Disagrees(m_provided, m_scraped, f))
            => m_result = TRUE)

\* C15: a query that supplies none of name, email, phone, license never
\* matches, whatever the candidate holds.
C15_EmptyQueryNeverMatches ==
    (m_pc = "return" /\ Supplied(m_provided) = {}) => m_result = FALSE

C15_Witness ==
    /\ m_pc = "return"
    /\ m_provided = [AgentVerificationRequest EXCEPT !.name = Some(<< >>)]
    /\ \A f \in MatchFields : Truthy(m_scraped[f])
    /\ m_result = FALSE

\* A phone without whitespace, hyphens and parentheses, and without the '+'
\* characters it then starts with.
PhoneCore(str) ==
    lstrip_plus(SelectSeq(str, LAMBDA c : c \notin Whitespace \cup {"-", "(", ")"}))

\* C17: two phones that differ only in whitespace, hyphens, parentheses and a
\* leading '+' are equal after normalize_phone, and a query that supplies only
\* such a phone matches the candidate: "(555) 123-4567" matches
\* "555-123-4567" and "+5551234567".
C17_PhoneFormattingIgnored ==
    (/\ m_pc = "return"
     /\ Truthy(m_provided.phone)
     /\ Truthy(m_scraped.phone)
     /\ PhoneCore(m_provided.phone[1]) = PhoneCore(m_scraped.phone[1]))
        => /\ normalize_phone(m_provided.phone) = normalize_phone(m_scraped.phone)
           /\ (Supplied(m_provided) = {"phone"} /\ PhoneCore(m_provided.phone[1]) # << >>)
                => m_result = TRUE

C17_Witness ==
    /\ m_pc = "return"
    /\ m_provided = [AgentVerificationRequest EXCEPT !.phone = Some(<<"(", "5", "5", "5", ")", " ", "1", "2", "3", "-", "4", "5", "6", "7">>)]
    /\ m_scraped.phone = Some(<<"+", "5", "5", "5", "1", "2", "3", "4", "5", "6", "7">>)
    /\ m_result = TRUE
    /\ normalize_phone(m_provided.phone) = Some(<<"5", "5", "5", "1", "2", "3", "4", "5", "6", "7">>)

C17_WitnessHyphens ==
    /\ m_pc = "return"
    /\ m_provided = [AgentVerificationRequest EXCEPT !.phone = Some(<<"(", "5", "5", "5", ")", " ", "1", "2", "3", "-", "4", "5", "6", "7">>)]
    /\ m_scraped.phone = Some(<<"5", "5", "5", "-", "1", "2", "3", "-", "4", "5", "6", "7">>)
    /\ m_result = TRUE

\* The characters of str that are none of drop, in their order.
RECURSIVE Without(_, _)
Without(str, drop) ==
    IF str = << >>
    THEN << >>
    ELSE (IF Head(str) \in drop THEN << >> ELSE <<Head(str)>>)
             \o Without(Tail(str), drop)

\* C18 as stated: normalize_phone returns the phone without whitespace,
\* hyphens and parentheses and without its leading '+' characters,
\* lower-cased; a '+' further in is kept.
C18_LeadingPlusOnly ==
    (n_pc = "return" /\ Truthy(n_phone))
        => n_result = Some(lower(lstrip_plus(
                          Without(n_phone[1], {" ", "\t", "-", "(", ")"}))))

\* C18: for a non-empty phone, normalize_phone returns the phone without
\* whitespace, hyphens, parentheses and every '+', wherever it stands,
\* lower-cased; for None and for the empty string it returns None.
C18_EveryPlusRemoved ==
    n_pc = "return" =>
        IF n_phone = None \/ n_phone = Some(<< >>)
        THEN n_result = None
        ELSE /\ n_result = Some(lower(Without(n_phone[1],
                                              {" ", "\t", "-", "(", ")", "+"})))
             /\ \A k \in 1..Len(n_result[1]) :
                    n_result[1][k] \notin {" ", "\t", "-", "(", ")", "+", "A"}

C18_Witness ==
    /\ n_pc = "return"
    /\ n_phone = Some(<<"A", "+", "5">>)
    /\ n_result = Some(<<"a", "5">>)

\* The positions of the scraped page whose candidate satisfies agent_matches.
Matching ==
    {k \in 1..Len(scraped_agents) : agent_matches(agent_details, scraped_agents[k])}

\* The first of them.
FirstMatching == CHOOSE k \in Matching : \A j \in Matching : k <= j

\* C16: verify answers with the first candidate, in page order, that
\* satisfies agent_matches; no candidate after it is evaluated; the answer is
\* "no match" exactly when no candidate matches.
C16_FirstMatchWins ==
    /\ v_pc \in {"loop", "done"} /\ Matching # {} => evaluated \subseteq 1..FirstMatching
    /\ (v_pc = "done" /\ v_response.status = 200) =>
          /\ v_response.match <=> Matching # {}
          /\ v_response.provided_details = agent_details
          /\ IF Matching = {}
             THEN /\ v_response.matched_agent = None
                  /\ evaluated = 1..Len(scraped_agents)
                  /\ v_response.message =
                        <<"Agent details not found on website">> \o Via(endpoint)
             ELSE /\ v_response.matched_agent = Some(scraped_agents[FirstMatching])
                  /\ evaluated = 1..FirstMatching
                  /\ v_response.message =
                        <<"Agent details match found on website">> \o Via(endpoint)

C16_Witness ==
    /\ v_pc = "done"
    /\ v_response.status = 200
    /\ v_response.match
    /\ Len(scraped_agents) = 3
    /\ Matching = {2, 3}
    /\ evaluated = {1, 2}
    /\ scraped_agents[2] # scraped_agents[3]
    /\ v_response.matched_agent = Some(scraped_agents[2])

C16_WitnessNoMatch ==
    /\ v_pc = "done"
    /\ v_response.status = 200
    /\ ~v_response.match
    /\ evaluated = {1, 2, 3}

\* C19: a verify request whose name, email, phone and license are all absent
\* or empty is answered 400 before any page scrape is started, and the 400 is
\* the response as raised, not a 500 of the handler's except Exception.
C19_EmptyRequestRejected ==
    ~any(agent_details) =>
        /\ scrapes = 0
        /\ v_pc \in {"validate", "done"}
        /\ v_pc = "done" =>
              v_response =
                 [status |-> 400,
                  detail |-> <<"At least one field (name, email, phone, or license) must be provided">>]

C19_Witness ==
    /\ v_pc = "done"
    /\ endpoint = "verify-agent-mcp"
    /\ agent_details.name = Some(<< >>)
    /\ agent_details.phone = None
    /\ ~any(agent_details)
    /\ v_response.status = 400
    /\ scrapes = 0

\* The number of entries of list that equal v.
Count(list, v) == Cardinality({k \in 1..Len(list) : list[k] = v})

\* C21: the message of the batch response ends with
\* "(N profiles failed to load details)" exactly when the failure count N is
\* not 0, and N is the length of failed_profiles once every unit has settled.
C21_FailureSuffix ==
    Answered =>
        LET message == response.message
            N == Len(failed_profiles)
        IN  /\ SubSeq(message, 1, 3) =
                  <<"Successfully scraped ", Len(agents), " agents with full details">>
            /\ IF N > 0
               THEN /\ Len(message) = 6
                    /\ message[4] = " ("
                    /\ message[5] = N
                    /\ message[6] = " profiles failed to load details)"
               ELSE Len(message) = 3

C21_Witness ==
    /\ Answered
    /\ Len(failed_profiles) = 2
    /\ Len(response.message) = 6
    /\ response.message[5] = 2
    /\ Ended("record") # {}

C21_WitnessNoFailure ==
    /\ Answered
    /\ failed_profiles = << >>
    /\ Len(response.message) = 3
    /\ Ended("empty") # {}

\* C22: whatever the order in which the units complete, the record at
\* position i of the response comes from the summary at position i: its merge
\* with the detail record fetched for it, or the summary itself.
C22_PositionsKept ==
    Answered =>
        /\ Len(response.agents) = Len(agents)
        /\ \A i \in Units :
              IF fetched[i] = "record"
              THEN IsFullMerge(response.agents[i], agents[i],
                               DetailRecord(ProfileIdOf(agents[i].profile_url[1])[1]))
              ELSE response.agents[i] = agents[i]

\* Units 1 and 2 differ and completed in the order 2, 1 (the order of
\* failed_profiles), and a later unit was merged.
C22_Witness ==
    /\ Answered
    /\ Len(agents) >= 3
    /\ agents[1] # agents[2]
    /\ failed_profiles = <<agents[2].profile_url, agents[1].profile_url>>
    /\ fetched[3] = "record"
    /\ response.agents[1] = agents[1]
    /\ response.agents[2] = agents[2]
    /\ response.agents[3] # agents[3]

\* C26: no update of failed_profiles is lost: at any time it holds exactly one
\* entry, the profile_url, for each unit whose detail fetch raised, and the
\* count in the message after the join is the number of those units.
C26_NoLostFailure ==
    requested = None =>
        /\ Len(failed_profiles) = Cardinality(Ended("raised"))
        /\ \A i \in Ended("raised") :
              Count(failed_profiles, agents[i].profile_url) =
                  Cardinality({j \in Ended("raised") :
                                  agents[j].profile_url = agents[i].profile_url})
        /\ (Answered /\ Ended("raised") # {}) =>
              response.message[5] = Cardinality(Ended("raised"))

C26_Witness ==
    /\ pc = "gather"
    /\ Cardinality(InFlight) = 2
    /\ Cardinality(Ended("raised")) = 2
    /\ Len(failed_profiles) = 2
    /\ failed_profiles[1] # failed_profiles[2]

C26_WitnessJoined ==
    /\ Answered
    /\ Cardinality(Ended("raised")) = 3
    /\ response.message[5] = 3

UnitState(j) ==
    <<task[j], profile_id[j], fetched[j], detailed_info[j], result[j]>>

\* A step of unit i that leaves the other units, the summaries, the handler
\* and the response as they were, and moves the permit count by at most one.
OwnStateOnly(i) ==
    /\ \A j \in Units \ {i} : UnitState(j)' = UnitState(j)
    /\ agents' = agents
    /\ pc' = pc
    /\ response' = response
    /\ semaphore' \in {semaphore - 1, semaphore, semaphore + 1}

\* C25 as stated: the permit count is the only state the units share: a step
\* of one unit changes the permit count, its own progress and its own output
\* slot, and nothing else.
C25_OnlyPermitsShared ==
    [][\A i \in Units :
          task'[i] # task[i] => OwnStateOnly(i) /\ failed_profiles' = failed_profiles]_vars

\* C25: the units share the permit count and the list failed_profiles: a step
\* of one unit changes the permit count, its own progress and its own output
\* slot, appends its profile_url to failed_profiles when its fetch raised, and
\* changes nothing else.
C25_PermitsAndFailuresShared ==
    [][\A i \in Units :
          task'[i] # task[i] =>
              /\ OwnStateOnly(i)
              /\ failed_profiles' =
                    IF fetched'[i] = "raised" /\ fetched[i] # "raised"
                    THEN Append(failed_profiles, agents[i].profile_url)
                    ELSE failed_profiles]_vars

C25_Witness ==
    /\ pc = "gather"
    /\ \E i \in Ended("raised") : \E j \in Ended("record") : \E k \in InFlight :
          /\ failed_profiles = <<agents[i].profile_url>>
          /\ result[j] # Some(agents[j])
          /\ result[k] = None

\* Every unit whose call has not hung has settled.
OthersSettled == \A i \in Units \ hung : task[i] = "done"

\* C23: while a detail fetch hangs the request gets no response, and the
\* hanging call costs its own permit only: with fewer than 3 hanging calls
\* every other unit gets a permit and settles in the end, the free permits
\* then being 3 less the hanging calls.
C23_HangStallsItsSlotOnly ==
    /\ [](hung # {} => pc # "done" /\ response = NoResponse)
    /\ [](OthersSettled => semaphore = Permits - Cardinality(hung))
    /\ (pc = "gather") ~> (Cardinality(hung) >= 3 \/ OthersSettled)

C23_Witness ==
    /\ pc = "gather"
    /\ Len(agents) = 4
    /\ Cardinality(hung) = 2
    /\ OthersSettled
    /\ \A i \in Units : profile_id[i] # None
    /\ semaphore = 1

\* C24: when no detail fetch hangs, the run cannot be stuck with units waiting
\* and no permit held by a call in flight, and the request is answered in the
\* end, every unit having had its permit and settled.
C24_RunCompletes ==
    /\ []((pc = "gather" /\ \E i \in Units : task[i] = "waiting")
             => (~Locked(semaphore) \/ InFlight # {}))
    /\ [](pc = "done" => \A i \in Units : task[i] = "done")
    /\ (pc = "gather") ~> (pc = "done" \/ hung # {})

C24_Witness ==
    /\ pc = "done"
    /\ hung = {}
    /\ Len(agents) = 4
    /\ \A i \in Units : fetched[i] # "no"
    /\ response.status = 200

\* The units whose call has a browser open.
OpenSessions == {i \in Units : browser[i] = "open"}

\* C29: the browser of a detail fetch is closed before the fetch returns or
\* raises, so only calls in flight have a browser open: never more than 3
\* browsers are open, and none is when the response is returned.
C29_SessionsClosed ==
    /\ \A i \in Units : task[i] = "done" => browser[i] # "open"
    /\ \A i \in Ended("record") \cup Ended("empty") : browser[i] = "closed"
    /\ OpenSessions \subseteq InFlight
    /\ Cardinality(OpenSessions) <= 3
    /\ pc = "done" => OpenSessions = {}

C29_Witness ==
    /\ pc = "done"
    /\ response.status = 200
    /\ \E i \in Ended("raised") : browser[i] = "closed"
    /\ \E i \in Ended("raised") : browser[i] = "none"
    /\ \E i \in Ended("record") : browser[i] = "closed"
    /\ OpenSessions = {}

C29_WitnessThreeOpen ==
    /\ Cardinality(OpenSessions) = 3
    /\ \E i \in Units : task[i] = "waiting" /\ HasProfileId(agents[i].profile_url)

\* C30: a unit takes a permit before it looks for its identifier: a unit
\* without identifier starts only when a permit is free, so it can be kept
\* waiting by 3 fetches in flight; it gives the permit back in the step that
\* took it, so in no state it holds one: the permits taken are those of the
\* fetches in flight.
C30_IneligibleTakesPermit ==
    /\ [][\A i \in Units :
            (task[i] = "waiting" /\ task'[i] # "waiting") => ~Locked(semaphore)]_vars
    /\ [][\A i \in Units :
            (~HasProfileId(agents[i].profile_url) /\ task'[i] # task[i])
                => (task'[i] = "done" /\ semaphore' = semaphore)]_vars
    /\ [](\A i \in Units :
            ~HasProfileId(agents[i].profile_url) => task[i] \in {"waiting", "done"})
    /\ [](semaphore = Permits - Cardinality(InFlight))

C30_Witness ==
    /\ pc = "gather"
    /\ Cardinality(InFlight) = 3
    /\ Locked(semaphore)
    /\ \E i \in Units : ~HasProfileId(agents[i].profile_url) /\ task[i] = "waiting"

\* C27: the MCP transport answers N extracted links with exactly N records, in
\* the order of the links, a link without '/profile/<id>' identifier being
\* answered with its own basic record.
C27_McpKeepsEveryLink ==
    (c_pc = "done" /\ c_response.status = 200) =>
        /\ c_response.total_agents = Len(agent_links_data)
        /\ Len(c_response.agents) = Len(agent_links_data)
        /\ \A i \in McpUnits :
              ProfileIdOf(agent_links_data[i].url) = None =>
                  c_response.agents[i] = BasicInfo(agent_links_data[i])
====
